---- MODULE Spec2Model ----
(***************************************************************************)
(* Model of electronic-configuration.ipynb: the notebook that lists every  *)
(* occupation of equidistant energy levels (0, 1 or 2 electrons per level) *)
(* with n electrons and total energy e.                                    *)
(*                                                                         *)
(* The notebook's globals are the variables; each code cell is one action, *)
(* run top to bottom; the for loop of the last cell takes one step per     *)
(* candidate drawn from sympy's variations().                              *)
(*                                                                         *)
(* Energies are floats in the notebook.  Every value the notebook computes *)
(* from an input that is a multiple of 0.25 is itself a multiple of 0.25   *)
(* and exact in binary floating point, so an energy x is held here as the  *)
(* integer 4*x ("quarters"): e = 6 stands for 1.5, a level energy i + 0.5  *)
(* is 4*i + 2.                                                             *)
(***************************************************************************)
EXTENDS Integers, Sequences, FiniteSets

VARIABLES pc, n, e, electron_states, energy, ground_state_energy,
          max_en, min_en, temp_energy, count, updated_n, updated_e,
          variations, warnings, printed, reported

vars == <<pc, n, e, electron_states, energy, ground_state_energy,
          max_en, min_en, temp_energy, count, updated_n, updated_e,
          variations, warnings, printed, reported>>

(* ------------------------------ bounds -------------------------------- *)

\* largest number of electrons tried
MaxN == 5

\* largest total energy tried, in whole units (inputs go in steps of 0.25)
MaxE == 8

\* how many levels beyond max_en a longer ladder is given
ExtraLevels == 2

(* ------------------- the values typed into the notebook ---------------- *)

RefN == 20

RefE == 106

(* ------------------------- numpy / python helpers ---------------------- *)

\* np.ones(k)*c, np.zeros(k)
Fill(k, c) == [j \in 1..k |-> c]

\* sum(i) over a tuple or array
RECURSIVE SumFrom(_, _)
SumFrom(s, k) == IF k > Len(s) THEN 0 ELSE s[k] + SumFrom(s, k + 1)

Sum(s) == SumFrom(s, 1)

\* np.dot(a, b) of two arrays of the same length
RECURSIVE DotFrom(_, _, _)
DotFrom(a, b, k) == IF k > Len(a) THEN 0 ELSE a[k] * b[k] + DotFrom(a, b, k + 1)

Dot(a, b) == DotFrom(a, b, 1)

\* np.arange(0.5, 0.5 + len): 0.5, 1.5, ... in quarters
Arange(len) == [j \in 1..len |-> 4 * (j - 1) + 2]

\* int(x) of a float x given in quarters: truncation towards zero
IntTrunc(q) == IF q >= 0 THEN q \div 4 ELSE -((-q) \div 4)

\* a[:k] for k >= 0 (a slice never fails, it stops at the end of a)
SliceTo(a, k) == IF k >= Len(a) THEN a ELSE SubSeq(a, 1, k)

\* a[k:] for k >= 0
SliceFrom(a, k) == IF k >= Len(a) THEN << >> ELSE SubSeq(a, k + 1, Len(a))

(* ------------------------------ cell 2 -------------------------------- *)

ParityOKWrong(nn, ee) == ee % 4 = 0

\* (n%2==0 and e%1==0) or (n%2==1 and e%1==0.5)
ParityOK(nn, ee) ==
    \/ (nn % 2 = 0 /\ ee % 4 = 0)
    \/ (nn % 2 = 1 /\ ee % 4 = 2)

(* ------------------------------ cell 3 -------------------------------- *)

GroundLadderNoOdd(nn) == Fill(nn \div 2, 2)

\* np.ones(n//2)*2, with a 1 appended when n is odd
GroundLadder(nn) ==
    IF nn % 2 = 0 THEN Fill(nn \div 2, 2) ELSE Append(Fill(nn \div 2, 2), 1)

(* ------------------------------ cell 6 -------------------------------- *)

MaxEnShort(len, ee, g) == IntTrunc(4 * len + (ee - g)) - 1

\* int(len(electron_states) + (e - ground_state_energy))
MaxEn(len, ee, g) == IntTrunc(4 * len + (ee - g))

MinEnNoOdd(nn, len, ee, g) ==
    LET m == IntTrunc(4 * len - (ee - g))
    IN  IF m > 0 THEN m ELSE 0

\* int(len - (e - g)), one less for odd n, then clamped at 0
MinEn(nn, len, ee, g) ==
    LET m0 == IntTrunc(4 * len - (ee - g))
        m1 == IF nn % 2 = 1 THEN m0 - 1 ELSE m0
    IN  IF m1 > 0 THEN m1 ELSE 0

(* ------------------------------ cell 11 ------------------------------- *)

UpdatedEOnce(ee, temp) == ee - Dot(temp, Fill(Len(temp), 1))

\* e - np.dot(temp_energy, np.ones(len(temp_energy))*2)
UpdatedE(ee, temp) == ee - Dot(temp, Fill(Len(temp), 2))

VariationsStartNone(len) == IF len = 0 THEN << >> ELSE << Fill(len, 0) >>

\* variations([0,1,2], len, True): the generator before its first yield.
\* It holds the tuple it yields next; for len = 0 that is the empty tuple.
VariationsStart(len) == << Fill(len, 0) >>

\* position of the digit that product() increases after tuple t
\* (the last one below 2), 0 when there is none
RECURSIVE LastBelow(_, _)
LastBelow(t, k) == IF k = 0 THEN 0 ELSE IF t[k] < 2 THEN k ELSE LastBelow(t, k - 1)

RECURSIVE FirstBelow(_, _)
FirstBelow(t, k) ==
    IF k > Len(t) THEN 0 ELSE IF t[k] < 2 THEN k ELSE FirstBelow(t, k + 1)

VariationsNextLeft(t) ==
    LET p == FirstBelow(t, 1)
    IN  IF p = 0 THEN << >>
        ELSE << [j \in 1..Len(t) |->
                   IF j > p THEN t[j] ELSE IF j = p THEN t[j] + 1 ELSE 0] >>

\* the generator after it has yielded t: itertools.product order, the last
\* position running fastest; exhausted after the all-2 tuple
VariationsNext(t) ==
    LET p == LastBelow(t, Len(t))
    IN  IF p = 0 THEN << >>
        ELSE << [j \in 1..Len(t) |->
                   IF j < p THEN t[j] ELSE IF j = p THEN t[j] + 1 ELSE 0] >>

AcceptsSumOnly(i, en, un, ue) == Sum(i) = un

\* sum(i) == updated_n and np.dot(i,energy) == updated_e
Accepts(i, en, un, ue) == Sum(i) = un /\ Dot(i, en) = ue

ConfigurationOnes(m, i) == Fill(m, 1) \o i

\* np.append(np.ones(min_en)*2, i).astype(int)
Configuration(m, i) == Fill(m, 2) \o i

(* ------------------------------- state -------------------------------- *)

\* Globals a cell has not bound yet hold 0 or the empty array; reported is
\* -1 until the last line of the notebook has printed the count.
Unbound ==
    /\ electron_states = << >>
    /\ energy = << >>
    /\ ground_state_energy = 0
    /\ max_en = 0
    /\ min_en = 0
    /\ temp_energy = << >>
    /\ count = 0
    /\ updated_n = 0
    /\ updated_e = 0
    /\ variations = << >>
    /\ warnings = << >>
    /\ printed = << >>
    /\ reported = -1

Init ==
    /\ pc = "cell2"
    /\ n \in 0..MaxN
    /\ e \in 0..(4 * MaxE)
    /\ Unbound

InitRef ==
    /\ pc = "cell2"
    /\ n = RefN
    /\ e = 4 * RefE
    /\ Unbound

Cell2 ==
    /\ pc = "cell2"
    /\ warnings' = IF ParityOK(n, e) THEN warnings
                   ELSE Append(warnings, "Invalid values")
    /\ pc' = "cell3"
    /\ UNCHANGED <<n, e, electron_states, energy, ground_state_energy, max_en,
                   min_en, temp_energy, count, updated_n, updated_e,
                   variations, printed, reported>>

Cell3 ==
    /\ pc = "cell3"
    /\ electron_states' = GroundLadder(n)
    /\ pc' = "cell4"
    /\ UNCHANGED <<n, e, energy, ground_state_energy, max_en, min_en,
                   temp_energy, count, updated_n, updated_e, variations,
                   warnings, printed, reported>>

Cell4 ==
    /\ pc = "cell4"
    /\ energy' = Arange(Len(electron_states))
    /\ pc' = "cell5"
    /\ UNCHANGED <<n, e, electron_states, ground_state_energy, max_en, min_en,
                   temp_energy, count, updated_n, updated_e, variations,
                   warnings, printed, reported>>

Cell5 ==
    /\ pc = "cell5"
    /\ ground_state_energy' = Dot(electron_states, energy)
    /\ warnings' =
          IF e < ground_state_energy'
          THEN Append(warnings, "Invalid values")
          ELSE IF e = ground_state_energy'
               THEN Append(warnings, "Given energy is ground state energy")
               ELSE warnings
    /\ pc' = "cell6"
    /\ UNCHANGED <<n, e, electron_states, energy, max_en, min_en, temp_energy,
                   count, updated_n, updated_e, variations, printed, reported>>

Cell6 ==
    /\ pc = "cell6"
    /\ max_en' = MaxEn(Len(electron_states), e, ground_state_energy)
    /\ min_en' = MinEn(n, Len(electron_states), e, ground_state_energy)
    /\ pc' = "cell7"
    /\ UNCHANGED <<n, e, electron_states, energy, ground_state_energy,
                   temp_energy, count, updated_n, updated_e, variations,
                   warnings, printed, reported>>

\* while len(electron_states) < max_en: append a 0
Cell7 ==
    /\ pc = "cell7"
    /\ electron_states' =
          IF Len(electron_states) < max_en
          THEN electron_states \o Fill(max_en - Len(electron_states), 0)
          ELSE electron_states
    /\ pc' = "cell8"
    /\ UNCHANGED <<n, e, energy, ground_state_energy, max_en, min_en,
                   temp_energy, count, updated_n, updated_e, variations,
                   warnings, printed, reported>>

Cell8 ==
    /\ pc = "cell8"
    /\ energy' = Arange(Len(electron_states))
    /\ pc' = "cell9"
    /\ UNCHANGED <<n, e, electron_states, ground_state_energy, max_en, min_en,
                   temp_energy, count, updated_n, updated_e, variations,
                   warnings, printed, reported>>

Cell9 ==
    /\ pc = "cell9"
    /\ temp_energy' = IF min_en = 0 THEN << 0 >> ELSE SliceTo(energy, min_en)
    /\ pc' = "cell10"
    /\ UNCHANGED <<n, e, electron_states, energy, ground_state_energy, max_en,
                   min_en, count, updated_n, updated_e, variations, warnings,
                   printed, reported>>

Cell10 ==
    /\ pc = "cell10"
    /\ energy' = SliceFrom(energy, min_en)
    /\ pc' = "cell11"
    /\ UNCHANGED <<n, e, electron_states, ground_state_energy, max_en, min_en,
                   temp_energy, count, updated_n, updated_e, variations,
                   warnings, printed, reported>>

\* the three assignments of cell 11 and the call of variations()
Cell11Start ==
    /\ pc = "cell11"
    /\ count' = 0
    /\ updated_n' = n - min_en * 2
    /\ updated_e' = UpdatedE(e, temp_energy)
    /\ variations' = VariationsStart(Len(energy))
    /\ pc' = "loop"
    /\ UNCHANGED <<n, e, electron_states, energy, ground_state_energy, max_en,
                   min_en, temp_energy, warnings, printed, reported>>

\* one iteration of the for loop: draw the next tuple, test it, print it
LoopStep ==
    /\ pc = "loop"
    /\ variations # << >>
    /\ LET i == variations[1] IN
         /\ variations' = VariationsNext(i)
         /\ IF Accepts(i, energy, updated_n, updated_e)
            THEN /\ printed' = Append(printed, Configuration(min_en, i))
                 /\ count' = count + 1
            ELSE UNCHANGED <<printed, count>>
    /\ UNCHANGED <<pc, n, e, electron_states, energy, ground_state_energy,
                   max_en, min_en, temp_energy, updated_n, updated_e,
                   warnings, reported>>

\* the generator is exhausted: print('There are {} configurations')
Cell11End ==
    /\ pc = "loop"
    /\ variations = << >>
    /\ reported' = count
    /\ pc' = "done"
    /\ UNCHANGED <<n, e, electron_states, energy, ground_state_energy, max_en,
                   min_en, temp_energy, count, updated_n, updated_e,
                   variations, warnings, printed>>

Next ==
    \/ Cell2
    \/ Cell3
    \/ Cell4
    \/ Cell5
    \/ Cell6
    \/ Cell7
    \/ Cell8
    \/ Cell9
    \/ Cell10
    \/ Cell11Start
    \/ LoopStep
    \/ Cell11End

Spec == Init /\ [][Next]_vars

SpecRef == InitRef /\ [][Next]_vars

(* ------------------- vocabulary of the properties ---------------------- *)

\* energy(i) = i + 0.5 of level i (counted from 0), in quarters
LevelEnergy(i) == 4 * i + 2

\* sum over levels i of c[i] * energy(i); c[1] is level 0
RECURSIVE TotalEnergyFrom(_, _)
TotalEnergyFrom(c, k) ==
    IF k > Len(c) THEN 0 ELSE c[k] * LevelEnergy(k - 1) + TotalEnergyFrom(c, k + 1)

TotalEnergy(c) == TotalEnergyFrom(c, 1)

\* number of levels of the ground-state ladder
LadderLength(nn) == (nn + 1) \div 2

\* the ground-state ladder: floor(N/2) levels at 2, one level at 1 for odd N
LadderOf(nn) == [k \in 1..LadderLength(nn) |-> IF 2 * k <= nn THEN 2 ELSE 1]

\* its energy in closed form: 2*(0.5 + ... ) = floor(N/2)^2, plus the
\* energy of the level of the unpaired electron
GroundStateEnergyOf(nn) ==
    4 * (nn \div 2) * (nn \div 2) + (IF nn % 2 = 1 THEN LevelEnergy(nn \div 2) ELSE 0)

\* E is an integer for even N, has fractional part 0.5 for odd N
ParityConsistent(nn, ee) == IF nn % 2 = 0 THEN ee % 4 = 0 ELSE ee % 4 = 2

ValidInput(nn, ee) == ParityConsistent(nn, ee) /\ ee >= GroundStateEnergyOf(nn)

\* every occupancy sequence over len levels with nn particles and energy ee
AllConfigurations(len, nn, ee) ==
    {c \in [1..len -> 0..2] : Sum(c) = nn /\ TotalEnergy(c) = ee}

\* a comes strictly before b in lexicographic order, position 1 first
LexLess(a, b) ==
    /\ Len(a) = Len(b)
    /\ \E p \in 1..Len(a) :
          /\ a[p] < b[p]
          /\ \A j \in 1..(p - 1) : a[j] = b[j]

Flagged == \E k \in 1..Len(warnings) : warnings[k] = "Invalid values"

BeforeCell6 == pc \in {"cell2", "cell3", "cell4", "cell5", "cell6"}

(* ------------------------------ claims --------------------------------- *)

\* C1: every configuration the loop prints (min_en twos, then an accepted
\* tail) has n electrons in all and total energy e, level i being the
\* position of the entry in the whole configuration counted from 0.
C1_EmittedSumAndEnergy ==
    \A k \in 1..Len(printed) :
        Sum(printed[k]) = n /\ TotalEnergy(printed[k]) = e

C1_Witness ==
    /\ pc = "done"
    /\ min_en > 0
    /\ Len(printed) >= 2
    /\ Len(energy) > 0

\* C2: for valid inputs the configurations printed are exactly the
\* sequences over {0,1,2} of length max_en with sum n and energy e, and
\* each of those has a 2 at every one of its first min_en positions.
C2_PrunedSearchComplete ==
    (pc = "done" /\ ValidInput(n, e)) =>
        /\ {printed[k] : k \in 1..Len(printed)} = AllConfigurations(max_en, n, e)
        /\ \A c \in AllConfigurations(max_en, n, e) :
               \A j \in 1..min_en : c[j] = 2

C2_Witness ==
    /\ pc = "done"
    /\ ValidInput(n, e)
    /\ min_en > 0
    /\ n % 2 = 1
    /\ Len(printed) >= 2

\* C3: when e is the ground-state energy of n electrons, exactly one
\* configuration is printed and it is the ground-state ladder.
C3_GroundStateUnique ==
    (pc = "done" /\ e = GroundStateEnergyOf(n)) =>
        /\ printed = << LadderOf(n) >>
        /\ reported = 1

C3_Witness ==
    /\ pc = "done"
    /\ n = 1
    /\ e = 2
    /\ printed = << << 1 >> >>

\* C4 as stated: on invalid inputs the program does not proceed, so
\* max_en and min_en are never computed and the loop is never entered.
C4_InvalidInputStops == (~ValidInput(n, e)) => BeforeCell6

\* C4 as amended: on invalid inputs the program has printed
\* 'Invalid values' by the time cell 5 has run (and then runs on).
C4_InvalidInputFlagged ==
    (~ValidInput(n, e) /\ pc \notin {"cell2", "cell3", "cell4", "cell5"}) => Flagged

C4_Witness ==
    /\ ~ValidInput(n, e)
    /\ ParityConsistent(n, e)
    /\ pc = "loop"
    /\ Flagged

\* C5: once 'Invalid values' has been printed no configuration is ever
\* printed, and the count reported at the end is 0.
C5_FlaggedMeansNone ==
    Flagged =>
        /\ printed = << >>
        /\ count = 0
        /\ (pc = "done" => reported = 0)

C5_Witness ==
    /\ Flagged
    /\ pc = "done"
    /\ reported = 0
    /\ e >= GroundStateEnergyOf(n)
    /\ Len(energy) >= 2

\* C6: for n = 20, e = 106: max_en = 16, min_en = 4, 12 residual levels,
\* residual target sum 12, and 24 configurations in the end.
C6_ReferenceRun ==
    /\ (~BeforeCell6) => (max_en = 16 /\ min_en = 4)
    /\ (pc \in {"loop", "done"}) => (Len(energy) = 12 /\ updated_n = 12)
    /\ (pc = "done") => (reported = 24 /\ Len(printed) = 24)

C6_Witness ==
    /\ pc = "done"
    /\ n = RefN
    /\ e = 4 * RefE
    /\ reported = 24

\* C7 as stated: for n = 20, e = 106 the first configuration printed is
\* 2 2 2 2 followed by 2 1 2 2 2 2 2 1 0 0 0 0.
C7_FirstAsStated ==
    (Len(printed) >= 1) =>
        printed[1] = << 2, 2, 2, 2, 2, 1, 2, 2, 2, 2, 2, 1, 0, 0, 0, 0 >>

\* C7 as amended: for n = 20, e = 106 the first configuration printed is
\* 2 2 2 2 followed by 1 2 2 2 2 2 1 0 0 0 0 0.
C7_FirstConfiguration ==
    (Len(printed) >= 1) =>
        printed[1] = << 2, 2, 2, 2, 1, 2, 2, 2, 2, 2, 1, 0, 0, 0, 0, 0 >>

C7_Witness ==
    /\ n = RefN
    /\ e = 4 * RefE
    /\ min_en = 4
    /\ Len(printed) = 1

\* C8 as stated: for n = 2, e = 0.5 exactly one configuration, [2].
C8_AsStated ==
    (pc = "done" /\ n = 2 /\ e = 2) => printed = << << 2 >> >>

\* C8 as amended: n = 2, e = 0.5 is flagged invalid and gives no
\* configuration; the ground state of 2 electrons is n = 2, e = 1, and
\* that input gives exactly one configuration, [2].
C8_TwoElectrons ==
    /\ (pc = "done" /\ n = 2 /\ e = 2) =>
           (Flagged /\ printed = << >> /\ reported = 0)
    /\ (pc = "done" /\ n = 2 /\ e = 4) =>
           (~Flagged /\ printed = << << 2 >> >> /\ reported = 1)

C8_Witness ==
    /\ pc = "done"
    /\ n = 2
    /\ e = 4
    /\ printed = << << 2 >> >>

\* C9: the configurations are printed in strictly increasing lexicographic
\* order (so none twice), and count is at every step, and at the end, the
\* number printed so far.
C9_LexOrderAndCount ==
    /\ count = Len(printed)
    /\ \A k \in 1..(Len(printed) - 1) : LexLess(printed[k], printed[k + 1])
    /\ (pc = "done" => reported = Len(printed))

C9_Witness ==
    /\ pc = "done"
    /\ Len(printed) >= 3
    /\ reported = Len(printed)

\* C10: for valid inputs max_en is the ladder length plus the whole excess
\* energy, and in every occupancy sequence of any length K >= max_en with
\* sum n and energy e the levels of index >= max_en are empty.
C10_MaxEnSuffices ==
    (pc = "cell7" /\ ValidInput(n, e)) =>
        /\ max_en = LadderLength(n) + (e - GroundStateEnergyOf(n)) \div 4
        /\ \A K \in max_en..(max_en + ExtraLevels) :
               \A c \in AllConfigurations(K, n, e) :
                   \A j \in (max_en + 1)..K : c[j] = 0

C10_Witness ==
    /\ pc = "cell7"
    /\ ValidInput(n, e)
    /\ e > GroundStateEnergyOf(n)
    /\ n >= 3
    /\ \E c \in AllConfigurations(max_en + ExtraLevels, n, e) : c[max_en] # 0

====
